---------------------------- MODULE Spec2Model ----------------------------
(***************************************************************************)
(* A model of SimpleDatabaseGo (src/main.go): the row codec, the pager,    *)
(* the row table and the open/close life cycle over one backing file.      *)
(*                                                                         *)
(* Byte buffers (a page, a block of the file) are represented by their     *)
(* non-zero bytes: a function from byte offsets to 1..255.  An offset that *)
(* is not in the domain of the function holds the byte 0.  The            *)
(* representation is canonical, so two buffers are equal exactly when      *)
(* their functions are.                                                    *)
(***************************************************************************)
EXTENDS Integers, Sequences, FiniteSets, TLC

\* ------------------------------------------------------------ constants

COLUMN_USERNAME_SIZE == 32
COLUMN_EMAIL_SIZE == 255
ID_SIZE == 4
USERNAME_SIZE == COLUMN_USERNAME_SIZE
EMAIL_SIZE == COLUMN_EMAIL_SIZE
ID_OFFSET == 0
USERNAME_OFFSET == ID_OFFSET + ID_SIZE
EMAIL_OFFSET == USERNAME_OFFSET + USERNAME_SIZE
ROW_SIZE == ID_SIZE + USERNAME_SIZE + EMAIL_SIZE
PAGE_SIZE == 4096
TABLE_MAX_PAGES == 100
ROWS_PER_PAGE == PAGE_SIZE \div ROW_SIZE
TABLE_MAX_ROWS == ROWS_PER_PAGE * TABLE_MAX_PAGES

EXECUTE_SUCCESS == 0
EXECUTE_TABLE_FULL == 1

\* ------------------------------------------------------------ buffers

\* The buffer of all zero bytes (new(Page) in Go, an empty file block).
ZeroBuf == [i \in {} |-> 0]

\* The byte at offset i of buffer b.
ByteAt(b, i) == IF i \in DOMAIN b THEN b[i] ELSE 0

Min(a, b) == IF a < b THEN a ELSE b

Max(a, b) == IF a > b THEN a ELSE b

\* ------------------------------------------------------------ row codec

\* byte(id >> (8 * k)) for a uint32 id.  The model checker's integers
\* are 32-bit signed, so ids are drawn from 0 .. 2^31 - 1.
IdByte(id, k) == (id \div (256 ^ k)) % 256

\* SerializedByte with room kept for a terminating zero in each string
\* field (bytesToCopy is at most the field width minus one).
SerializedByteShort(row, i) ==
    IF i < USERNAME_OFFSET
    THEN IdByte(row.id, i)
    ELSE IF i < EMAIL_OFFSET
    THEN LET j == i - USERNAME_OFFSET
             bytesToCopy == Min(Len(row.username), USERNAME_SIZE - 1)
         IN  IF j < bytesToCopy THEN row.username[j + 1] ELSE 0
    ELSE LET j == i - EMAIL_OFFSET
             bytesToCopy == Min(Len(row.email), EMAIL_SIZE - 1)
         IN  IF j < bytesToCopy THEN row.email[j + 1] ELSE 0

\* The byte serializeRow stores at offset i (0..ROW_SIZE-1) of the slot.
\* Strings are sequences of bytes; s[1] is the first byte.
SerializedByte(row, i) ==
    IF i < USERNAME_OFFSET
    THEN IdByte(row.id, i)
    ELSE IF i < EMAIL_OFFSET
    THEN LET j == i - USERNAME_OFFSET
             bytesToCopy == Min(Len(row.username), USERNAME_SIZE)
         IN  IF j < bytesToCopy THEN row.username[j + 1] ELSE 0
    ELSE LET j == i - EMAIL_OFFSET
             bytesToCopy == Min(Len(row.email), EMAIL_SIZE)
         IN  IF j < bytesToCopy THEN row.email[j + 1] ELSE 0

\* serializeRow without the two loops that zero the rest of a string
\* field: the bytes after the copied string stay as they were.
serializeRowNoFill(row, page, byteOffset) ==
    LET copied == (0 .. (ID_SIZE - 1))
                  \cup {USERNAME_OFFSET + j :
                            j \in 0 .. (Min(Len(row.username), USERNAME_SIZE) - 1)}
                  \cup {EMAIL_OFFSET + j :
                            j \in 0 .. (Min(Len(row.email), EMAIL_SIZE) - 1)}
        set  == {i \in copied : SerializedByte(row, i) # 0}
        keep == (DOMAIN page) \ {byteOffset + i : i \in copied}
    IN  [o \in keep \cup {byteOffset + i : i \in set} |->
            IF o \in keep THEN page[o]
            ELSE SerializedByte(row, o - byteOffset)]

\* serializeRow(source, destination), where destination is the ROW_SIZE
\* bytes of buffer page that start at byteOffset: the buffer afterwards.
serializeRow(row, page, byteOffset) ==
    LET span == byteOffset .. (byteOffset + ROW_SIZE - 1)
        set  == {i \in 0 .. (ROW_SIZE - 1) : SerializedByte(row, i) # 0}
        keep == (DOMAIN page) \ span
    IN  [o \in keep \cup {byteOffset + i : i \in set} |->
            IF o \in keep THEN page[o]
            ELSE SerializedByte(row, o - byteOffset)]

\* bytes.IndexByte(field, 0) for the field of width n that starts at
\* offset from: the index of the first zero byte of the field, or -1.
IndexByte(b, from, n) ==
    IF \A i \in 0 .. (n - 1) : ByteAt(b, from + i) # 0
    THEN 0 - 1
    ELSE CHOOSE i \in 0 .. (n - 1) :
            /\ ByteAt(b, from + i) = 0
            /\ \A j \in 0 .. (i - 1) : ByteAt(b, from + j) # 0

\* string(field[:n]) as a sequence of bytes.
FieldString(b, from, n) == [j \in 1 .. n |-> ByteAt(b, from + j - 1)]

\* deserializeRow that takes the last byte of a field for its terminator:
\* a field with no zero byte is cut one byte short.
deserializeRowTerminated(page, byteOffset) ==
    LET b(k) == ByteAt(page, byteOffset + k)
        uOff == byteOffset + USERNAME_OFFSET
        eOff == byteOffset + EMAIL_OFFSET
        uNull == IndexByte(page, uOff, USERNAME_SIZE)
        eNull == IndexByte(page, eOff, EMAIL_SIZE)
    IN  [id |-> b(0) + b(1) * 256 + b(2) * 65536 + b(3) * 16777216,
         username |-> IF uNull = -1
                      THEN FieldString(page, uOff, USERNAME_SIZE - 1)
                      ELSE FieldString(page, uOff, uNull),
         email |-> IF eNull = -1
                   THEN FieldString(page, eOff, EMAIL_SIZE - 1)
                   ELSE FieldString(page, eOff, eNull)]

\* deserializeRow(source, destination), where source is the ROW_SIZE bytes
\* of buffer page that start at byteOffset: the decoded row.
deserializeRow(page, byteOffset) ==
    LET b(k) == ByteAt(page, byteOffset + k)
        uOff == byteOffset + USERNAME_OFFSET
        eOff == byteOffset + EMAIL_OFFSET
        uNull == IndexByte(page, uOff, USERNAME_SIZE)
        eNull == IndexByte(page, eOff, EMAIL_SIZE)
    IN  [id |-> b(0) + b(1) * 256 + b(2) * 65536 + b(3) * 16777216,
         username |-> IF uNull = -1
                      THEN FieldString(page, uOff, USERNAME_SIZE)
                      ELSE FieldString(page, uOff, uNull),
         email |-> IF eNull = -1
                   THEN FieldString(page, eOff, EMAIL_SIZE)
                   ELSE FieldString(page, eOff, eNull)]

\* ------------------------------------------------------------ backing file

\* The file is its length and its non-zero bytes, kept per 4096-byte block:
\* blocks[p] holds the bytes at file offsets p*4096 .. p*4096+4095, by their
\* offset inside the block.  The program seeks only to multiples of
\* PAGE_SIZE and transfers at most PAGE_SIZE bytes, so no transfer crosses
\* a block.
NumBlocks(len) == (len + PAGE_SIZE - 1) \div PAGE_SIZE

EmptyFile == [len |-> 0, blocks |-> [p \in {} |-> ZeroBuf]]

FileBlock(f, p) == IF p \in DOMAIN f.blocks THEN f.blocks[p] ELSE ZeroBuf

\* The byte at absolute offset o of the file (0 past its end).
FileByte(f, o) == ByteAt(FileBlock(f, o \div PAGE_SIZE), o % PAGE_SIZE)

\* file.Seek(pageNum * PAGE_SIZE) then file.Read(page[:]) into a zeroed
\* page: the file's bytes there, as many as the file holds; a short read
\* and io.EOF leave the rest of the page as it was (zero).
FileRead(f, pageNum) ==
    LET blk == FileBlock(f, pageNum)
    IN  [o \in {i \in DOMAIN blk : pageNum * PAGE_SIZE + i < f.len} |-> blk[o]]

\* file.Seek(pageNum * PAGE_SIZE) then file.Write(buf[:size]): bytes
\* 0..size-1 of the block are replaced, later bytes of the file stay, and
\* the file grows to hold the written span (a gap reads as zero).
FileWrite(f, pageNum, buf, size) ==
    LET old  == FileBlock(f, pageNum)
        keep == {o \in DOMAIN old : o >= size}
        new  == {o \in DOMAIN buf : o < size}
        blk  == [o \in keep \cup new |-> IF o \in new THEN buf[o] ELSE old[o]]
        len  == Max(f.len, pageNum * PAGE_SIZE + size)
    IN  [len |-> len,
         blocks |-> [p \in 0 .. (NumBlocks(len) - 1) |->
                        IF p = pageNum THEN blk ELSE FileBlock(f, p)]]

\* ------------------------------------------------------------ I/O faults

\* fault is the number of calls on the file (seek, read, write, close)
\* that still succeed before one call fails; NoFault: no call fails.
NoFault == 0 - 1

\* Whether the next call on the file fails.
Fails(fault) == fault = 0

\* The fault after one call on the file.
Tick(fault) == IF fault > 0 THEN fault - 1 ELSE NoFault

\* ------------------------------------------------------------ pager

\* pages is the slot array of the pager: a function from the numbers of
\* the resident pages to their buffers.  pager.pages[p] == nil is
\* p \notin DOMAIN pages.
NoPages == [p \in {} |-> ZeroBuf]

Resident(pgs, p) == p \in DOMAIN pgs

\* pager.pages[pageNum] = page
SetPage(pgs, pageNum, page) ==
    [p \in (DOMAIN pgs) \cup {pageNum} |-> IF p = pageNum THEN page ELSE pgs[p]]

\* pager.pages[pageNum] = nil
DropPage(pgs, pageNum) == [p \in (DOMAIN pgs) \ {pageNum} |-> pgs[p]]

\* getPage that never reads the file: a missing page is left all zero.
getPageNoLoad(pgs, fLen, f, fault, pageNum) ==
    IF pageNum > TABLE_MAX_PAGES
    THEN [err |-> "range", pages |-> pgs, fault |-> fault]
    ELSE IF pageNum \notin 0 .. (TABLE_MAX_PAGES - 1)
    THEN [err |-> "panic", pages |-> pgs, fault |-> fault]
    ELSE IF Resident(pgs, pageNum)
    THEN [err |-> "ok", pages |-> pgs, fault |-> fault]
    ELSE [err |-> "ok", pages |-> SetPage(pgs, pageNum, ZeroBuf),
          fault |-> fault]

\* getPage that keeps one page: a miss releases every other slot.
getPageEvict(pgs, fLen, f, fault, pageNum) ==
    IF pageNum > TABLE_MAX_PAGES
    THEN [err |-> "range", pages |-> pgs, fault |-> fault]
    ELSE IF pageNum \notin 0 .. (TABLE_MAX_PAGES - 1)
    THEN [err |-> "panic", pages |-> pgs, fault |-> fault]
    ELSE IF Resident(pgs, pageNum)
    THEN [err |-> "ok", pages |-> pgs, fault |-> fault]
    ELSE LET numPages == fLen \div PAGE_SIZE
                         + (IF fLen % PAGE_SIZE # 0 THEN 1 ELSE 0)
         IN  IF pageNum <= numPages
             THEN IF Fails(fault)
                  THEN [err |-> "seek", pages |-> pgs, fault |-> NoFault]
                  ELSE IF Fails(Tick(fault))
                  THEN [err |-> "read", pages |-> pgs, fault |-> NoFault]
                  ELSE [err |-> "ok",
                        pages |-> SetPage(NoPages, pageNum, FileRead(f, pageNum)),
                        fault |-> Tick(Tick(fault))]
             ELSE [err |-> "ok", pages |-> SetPage(NoPages, pageNum, ZeroBuf),
                   fault |-> fault]

\* getPage(pager, pageNum): err is "ok", "range" (the out-of-bounds error),
\* "panic" (index out of range on pager.pages), "seek" or "read"; pages and
\* fault are the slot array and the fault afterwards.
getPage(pgs, fLen, f, fault, pageNum) ==
    IF pageNum > TABLE_MAX_PAGES
    THEN [err |-> "range", pages |-> pgs, fault |-> fault]
    ELSE IF pageNum \notin 0 .. (TABLE_MAX_PAGES - 1)
    THEN [err |-> "panic", pages |-> pgs, fault |-> fault]
    ELSE IF Resident(pgs, pageNum)
    THEN [err |-> "ok", pages |-> pgs, fault |-> fault]
    ELSE LET numPages == fLen \div PAGE_SIZE
                         + (IF fLen % PAGE_SIZE # 0 THEN 1 ELSE 0)
         IN  IF pageNum <= numPages
             THEN IF Fails(fault)
                  THEN [err |-> "seek", pages |-> pgs, fault |-> NoFault]
                  ELSE IF Fails(Tick(fault))
                  THEN [err |-> "read", pages |-> pgs, fault |-> NoFault]
                  ELSE [err |-> "ok",
                        pages |-> SetPage(pgs, pageNum, FileRead(f, pageNum)),
                        fault |-> Tick(Tick(fault))]
             ELSE [err |-> "ok", pages |-> SetPage(pgs, pageNum, ZeroBuf),
                   fault |-> fault]

\* rowSlot that takes the rows as packed one after the other in the file,
\* ROW_SIZE bytes each, across the page boundaries.
rowSlotPacked(pgs, fLen, f, fault, rowNum) ==
    LET pageNum == (rowNum * ROW_SIZE) \div PAGE_SIZE
        got == getPage(pgs, fLen, f, fault, pageNum)
    IN  [err |-> got.err, pages |-> got.pages, fault |-> got.fault,
         pageNum |-> pageNum, byteOffset |-> (rowNum * ROW_SIZE) % PAGE_SIZE]

\* rowSlot(table, rowNum): getPage's answer, with the slot it resolves to:
\* ROW_SIZE bytes at byteOffset of page pageNum.
rowSlot(pgs, fLen, f, fault, rowNum) ==
    LET pageNum == rowNum \div ROWS_PER_PAGE
        got == getPage(pgs, fLen, f, fault, pageNum)
        rowOffset == rowNum % ROWS_PER_PAGE
    IN  [err |-> got.err, pages |-> got.pages, fault |-> got.fault,
         pageNum |-> pageNum, byteOffset |-> rowOffset * ROW_SIZE]

\* pagerFlush(pager, pageNum, size): err is "ok", "seek" or "write";
\* partial is the number of bytes a failing write transfers.
pagerFlush(pgs, f, fault, pageNum, size, partial) ==
    IF ~Resident(pgs, pageNum)
    THEN [err |-> "ok", file |-> f, fault |-> fault]
    ELSE IF Fails(fault)
    THEN [err |-> "seek", file |-> f, fault |-> NoFault]
    ELSE IF Fails(Tick(fault))
    THEN [err |-> "write",
          file |-> IF partial = 0 THEN f
                   ELSE FileWrite(f, pageNum, pgs[pageNum], Min(partial, size)),
          fault |-> NoFault]
    ELSE [err |-> "ok", file |-> FileWrite(f, pageNum, pgs[pageNum], size),
          fault |-> Tick(Tick(fault))]

\* ------------------------------------------------------------ table

\* pagerOpen and dbOpen: the file length, the row count taken from it, and
\* every slot nil.  uint32(fileLength) is the length itself: the program
\* writes no byte at or after TABLE_MAX_PAGES * PAGE_SIZE.
dbOpen(f) ==
    [fileLength |-> f.len, numRows |-> f.len \div ROW_SIZE, pages |-> NoPages]

\* One iteration of a flush loop of dbClose, for page i and size bytes;
\* an iteration after a return does nothing.
CloseStep(s, i, size, partial) ==
    IF s.err # "ok" \/ ~Resident(s.pages, i)
    THEN s
    ELSE LET r == pagerFlush(s.pages, s.file, s.fault, i, size, partial)
         IN  [err |-> r.err, file |-> r.file, fault |-> r.fault,
              pages |-> IF r.err = "ok" THEN DropPage(s.pages, i) ELSE s.pages]

\* The iterations lo .. hi-1 of `for i := range numFullPages`, in order.
\* The range is halved so that the depth of the recursion stays small.
RECURSIVE CloseLoop(_, _, _, _)
CloseLoop(s, lo, hi, partial) ==
    IF lo >= hi THEN s
    ELSE IF hi = lo + 1 THEN CloseStep(s, lo, PAGE_SIZE, partial)
    ELSE LET mid == (lo + hi) \div 2
             left == CloseLoop(s, lo, mid, partial)
         IN  IF left.err # "ok" THEN left
             ELSE CloseLoop(left, mid, hi, partial)

\* dbClose that flushes the last, partial page at the full page size.
dbCloseWholePages(nRows, pgs, f, fault, partial) ==
    LET numFullPages == nRows \div ROWS_PER_PAGE
        s0 == [err |-> "ok", pages |-> pgs, file |-> f, fault |-> fault]
        s1 == CloseLoop(s0, 0, Min(numFullPages, TABLE_MAX_PAGES), partial)
        numAditionalRows == nRows % ROWS_PER_PAGE
        s2 == IF s1.err # "ok" THEN s1
              ELSE IF numFullPages > TABLE_MAX_PAGES
              THEN [s1 EXCEPT !.err = "panic"]
              ELSE IF numAditionalRows = 0 THEN s1
              ELSE IF numFullPages >= TABLE_MAX_PAGES
              THEN [s1 EXCEPT !.err = "panic"]
              ELSE CloseStep(s1, numFullPages, PAGE_SIZE,
                             partial)
    IN  IF s2.err # "ok" THEN s2
        ELSE IF Fails(s2.fault) THEN [s2 EXCEPT !.err = "close", !.fault = NoFault]
        ELSE [s2 EXCEPT !.pages = NoPages, !.fault = Tick(s2.fault)]

\* dbClose(table): err is "ok", "seek", "write" or "close", or "panic" when
\* pager.pages is indexed at TABLE_MAX_PAGES or beyond (numRows above
\* TABLE_MAX_ROWS): the run-time check ends the process there.
dbClose(nRows, pgs, f, fault, partial) ==
    LET numFullPages == nRows \div ROWS_PER_PAGE
        s0 == [err |-> "ok", pages |-> pgs, file |-> f, fault |-> fault]
        s1 == CloseLoop(s0, 0, Min(numFullPages, TABLE_MAX_PAGES), partial)
        numAditionalRows == nRows % ROWS_PER_PAGE
        s2 == IF s1.err # "ok" THEN s1
              ELSE IF numFullPages > TABLE_MAX_PAGES
              THEN [s1 EXCEPT !.err = "panic"]
              ELSE IF numAditionalRows = 0 THEN s1
              ELSE IF numFullPages >= TABLE_MAX_PAGES
              THEN [s1 EXCEPT !.err = "panic"]
              ELSE CloseStep(s1, numFullPages, numAditionalRows * ROW_SIZE,
                             partial)
    IN  IF s2.err # "ok" THEN s2
        ELSE IF Fails(s2.fault) THEN [s2 EXCEPT !.err = "close", !.fault = NoFault]
        ELSE [s2 EXCEPT !.pages = NoPages, !.fault = Tick(s2.fault)]

\* executeInsert with the capacity test numRows > TABLE_MAX_ROWS.
executeInsertOffByOne(row, nRows, pgs, fLen, f, fault) ==
    IF nRows > TABLE_MAX_ROWS
    THEN [result |-> EXECUTE_TABLE_FULL, err |-> "ok", numRows |-> nRows,
          pages |-> pgs, fault |-> fault]
    ELSE LET slot == rowSlot(pgs, fLen, f, fault, nRows)
         IN  IF slot.err # "ok"
             THEN [result |-> EXECUTE_SUCCESS, err |-> slot.err,
                   numRows |-> nRows, pages |-> slot.pages, fault |-> slot.fault]
             ELSE [result |-> EXECUTE_SUCCESS, err |-> "ok",
                   numRows |-> nRows + 1,
                   pages |-> SetPage(slot.pages, slot.pageNum,
                                serializeRow(row, slot.pages[slot.pageNum],
                                             slot.byteOffset)),
                   fault |-> slot.fault]

\* executeInsert that asks rowSlot for the last stored row instead of the
\* first free one.
executeInsertLastSlot(row, nRows, pgs, fLen, f, fault) ==
    IF nRows >= TABLE_MAX_ROWS
    THEN [result |-> EXECUTE_TABLE_FULL, err |-> "ok", numRows |-> nRows,
          pages |-> pgs, fault |-> fault]
    ELSE LET slot == rowSlot(pgs, fLen, f, fault, Max(nRows - 1, 0))
         IN  IF slot.err # "ok"
             THEN [result |-> EXECUTE_SUCCESS, err |-> slot.err,
                   numRows |-> nRows, pages |-> slot.pages, fault |-> slot.fault]
             ELSE [result |-> EXECUTE_SUCCESS, err |-> "ok",
                   numRows |-> nRows + 1,
                   pages |-> SetPage(slot.pages, slot.pageNum,
                                serializeRow(row, slot.pages[slot.pageNum],
                                             slot.byteOffset)),
                   fault |-> slot.fault]

\* executeInsert(statement, table, writer): result is the ExecuteResult
\* returned, err the error printed ("ok": none).
executeInsert(row, nRows, pgs, fLen, f, fault) ==
    IF nRows >= TABLE_MAX_ROWS
    THEN [result |-> EXECUTE_TABLE_FULL, err |-> "ok", numRows |-> nRows,
          pages |-> pgs, fault |-> fault]
    ELSE LET slot == rowSlot(pgs, fLen, f, fault, nRows)
         IN  IF slot.err # "ok"
             THEN [result |-> EXECUTE_SUCCESS, err |-> slot.err,
                   numRows |-> nRows, pages |-> slot.pages, fault |-> slot.fault]
             ELSE [result |-> EXECUTE_SUCCESS, err |-> "ok",
                   numRows |-> nRows + 1,
                   pages |-> SetPage(slot.pages, slot.pageNum,
                                serializeRow(row, slot.pages[slot.pageNum],
                                             slot.byteOffset)),
                   fault |-> slot.fault]

\* SelectStep that fetches the page of row i afresh, dropping the buffer
\* the slot holds.
SelectStepReload(s, i, fLen, f) ==
    IF s.panic THEN s
    ELSE LET dropped == DropPage(s.pages, i \div ROWS_PER_PAGE)
             slot == rowSlot(dropped, fLen, f, s.fault, i)
         IN  IF slot.err = "panic" THEN [s EXCEPT !.panic = TRUE]
             ELSE IF slot.err # "ok"
             THEN [s EXCEPT !.errs = Append(@, i), !.fault = slot.fault]
             ELSE [s EXCEPT !.pages = slot.pages, !.fault = slot.fault,
                       !.out = Append(@, deserializeRow(slot.pages[slot.pageNum],
                                                        slot.byteOffset))]

\* One iteration of the loop of executeSelect, for row i: out is the
\* sequence of rows printed, errs the row numbers reported as unreadable.
\* After a panic nothing more runs.
SelectStep(s, i, fLen, f) ==
    IF s.panic THEN s
    ELSE LET slot == rowSlot(s.pages, fLen, f, s.fault, i)
         IN  IF slot.err = "panic" THEN [s EXCEPT !.panic = TRUE]
             ELSE IF slot.err # "ok"
             THEN [s EXCEPT !.errs = Append(@, i), !.fault = slot.fault]
             ELSE [s EXCEPT !.pages = slot.pages, !.fault = slot.fault,
                       !.out = Append(@, deserializeRow(slot.pages[slot.pageNum],
                                                        slot.byteOffset))]

\* The iterations lo .. hi-1 of the loop of executeSelect, in order.
RECURSIVE SelectLoop(_, _, _, _, _)
SelectLoop(s, lo, hi, fLen, f) ==
    IF lo >= hi THEN s
    ELSE IF hi = lo + 1 THEN SelectStep(s, lo, fLen, f)
    ELSE LET mid == (lo + hi) \div 2
             left == SelectLoop(s, lo, mid, fLen, f)
         IN  IF left.panic THEN left
             ELSE SelectLoop(left, mid, hi, fLen, f)

\* executeSelect(table, writer)
executeSelect(nRows, pgs, fLen, f, fault) ==
    SelectLoop([pages |-> pgs, fault |-> fault, out |-> <<>>, errs |-> <<>>,
                panic |-> FALSE], 0, nRows, fLen, f)

\* ------------------------------------------------------------ state

VARIABLES
    file,        \* the backing file
    status,      \* "closed": no process runs; "open": the REPL is running
    exitCode,    \* exit code of the last process (NoResult: none yet)
    fileLength,  \* pager.fileLength
    pages,       \* pager.pages
    numRows,     \* table.numRows
    result,      \* ExecuteResult of the last statement (NoResult: none yet)
    printed,     \* error printed by the last insert ("ok": none)
    out,         \* rows printed by the last select
    errs,        \* row numbers the last select reported as unreadable
    closeErr,    \* what dbClose returned ("ok": nil; "none": not called yet)
    lastOp,      \* "init", "open", "insert", "select", "close" or "panic"
    log,         \* the rows stored by the inserts of all sessions, in order
    exits,       \* the exit codes of the processes that ended, in order
    openRows,    \* numRows as dbOpen set it
    codecRow,    \* codec check: the row given to serializeRow
    codecBuf,    \* codec check: the destination buffer
    codecOut,    \* codec check: the row deserializeRow returned
    codecPhase,  \* codec check: "start", "encoded" or "decoded"
    slotRow,     \* slot check: the row number given to rowSlot
    slotOut      \* slot check: what rowSlot resolved it to

dbVars == <<file, status, exitCode, fileLength, pages, numRows, result, printed,
            out, errs, closeErr, lastOp, log, exits, openRows>>

codecVars == <<codecRow, codecBuf, codecOut, codecPhase>>

slotVars == <<slotRow, slotOut>>

vars == <<dbVars, codecVars, slotVars>>

NoResult == 0 - 1

\* Exit code of a Go program that panics.
PANIC_EXIT == 2

NoRow == [id |-> 0, username |-> <<>>, email |-> <<>>]

NoSlot == [err |-> "none", pageNum |-> 0, byteOffset |-> 0]

\* No process has run yet and the file is empty.
DbInit ==
    /\ file = EmptyFile
    /\ status = "closed"
    /\ exitCode = NoResult
    /\ fileLength = 0
    /\ pages = NoPages
    /\ numRows = 0
    /\ result = NoResult
    /\ printed = "ok"
    /\ out = <<>>
    /\ errs = <<>>
    /\ closeErr = "none"
    /\ lastOp = "init"
    /\ log = <<>>
    /\ exits = <<>>
    /\ openRows = 0

Init ==
    /\ DbInit
    /\ codecRow = NoRow
    /\ codecBuf = ZeroBuf
    /\ codecOut = NoRow
    /\ codecPhase = "start"
    /\ slotRow = 0
    /\ slotOut = NoSlot

\* main: dbOpen(filename), then the REPL waits for input.
DoOpen ==
    /\ status = "closed"
    /\ LET t == dbOpen(file)
       IN  /\ fileLength' = t.fileLength
           /\ numRows' = t.numRows
           /\ openRows' = t.numRows
           /\ pages' = t.pages
    /\ status' = "open"
    /\ result' = NoResult
    /\ printed' = "ok"
    /\ out' = <<>>
    /\ errs' = <<>>
    /\ lastOp' = "open"
    /\ closeErr' = "none"
    /\ UNCHANGED <<file, exitCode, log, exits, codecVars, slotVars>>

\* runREPL on an insert statement that prepareStatement accepted.
DoInsert(row, fault) ==
    /\ status = "open"
    /\ LET r == executeInsert(row, numRows, pages, fileLength, file, fault)
       IN  /\ numRows' = r.numRows
           /\ pages' = r.pages
           /\ result' = r.result
           /\ printed' = r.err
           /\ log' = IF r.numRows # numRows THEN Append(log, row) ELSE log
    /\ out' = <<>>
    /\ errs' = <<>>
    /\ lastOp' = "insert"
    /\ UNCHANGED <<file, status, exitCode, fileLength, closeErr, exits, openRows,
                   codecVars, slotVars>>

\* runREPL on a select statement.  An index out of range on the slot array
\* panics: the process ends with PANIC_EXIT and flushes nothing.
DoSelect(fault) ==
    /\ status = "open"
    /\ LET r == executeSelect(numRows, pages, fileLength, file, fault)
       IN  /\ pages' = r.pages
           /\ out' = r.out
           /\ errs' = r.errs
           /\ IF r.panic
              THEN /\ status' = "closed"
                   /\ exitCode' = PANIC_EXIT
                   /\ exits' = Append(exits, PANIC_EXIT)
                   /\ lastOp' = "panic"
                   /\ result' = NoResult
              ELSE /\ lastOp' = "select"
                   /\ result' = EXECUTE_SUCCESS
                   /\ UNCHANGED <<status, exitCode, exits>>
    /\ printed' = "ok"
    /\ UNCHANGED <<file, fileLength, numRows, closeErr, log, openRows, codecVars,
                   slotVars>>

\* runREPL returns (end of input or +quit) and main calls dbClose, then
\* exits with 0, or with 1 when dbClose returned an error; a dbClose that
\* panics ends the process with PANIC_EXIT.
DoClose(fault, partial) ==
    /\ status = "open"
    /\ LET r == dbClose(numRows, pages, file, fault, partial)
           code == IF r.err = "ok" THEN 0
                   ELSE IF r.err = "panic" THEN PANIC_EXIT ELSE 1
       IN  /\ file' = r.file
           /\ pages' = r.pages
           /\ closeErr' = r.err
           /\ exitCode' = code
           /\ exits' = Append(exits, code)
    /\ status' = "closed"
    /\ lastOp' = "close"
    /\ UNCHANGED <<fileLength, numRows, result, printed, out, errs, log,
                   openRows, codecVars, slotVars>>

\* ------------------------------------------------------------ drivers

\* Inputs of the operations.  A fault is the number of calls on the file
\* that succeed inside the operation before one call fails (NoFault: none
\* fails); a failing write has transferred none of its bytes, or the first
\* ROW_SIZE of them.
MaxFaultDelay == 3

FaultChoices == {NoFault} \cup (0 .. MaxFaultDelay)

PartialWrites == {0, ROW_SIZE}

Session == Len(exits) + 1

\* Short sessions on a small table, with any of these rows.
MaxInserts == 2
MaxSessions == 3

FullUsername == [j \in 1 .. USERNAME_SIZE |-> 64 + j]

FullEmail == [j \in 1 .. EMAIL_SIZE |-> 1 + (j % 255)]

RowInputs == {[id |-> 66051, username |-> <<117, 49>>, email |-> <<120, 64, 121>>],
              [id |-> 2147483647, username |-> FullUsername, email |-> FullEmail]}

Open ==
    /\ Len(exits) < MaxSessions
    /\ DoOpen

Insert ==
    \E row \in RowInputs, fault \in FaultChoices :
        /\ Len(log) < MaxInserts
        /\ DoInsert(row, fault)

Select ==
    \E fault \in FaultChoices :
        /\ DoSelect(fault)

Close ==
    \E fault \in FaultChoices, partial \in PartialWrites :
        /\ DoClose(fault, partial)

Next == Open \/ Insert \/ Select \/ Close

Spec == Init /\ [][Next]_vars

\* ------------------------------------------------------------ long loads

\* The first session fills the table from the empty file with the rows
\* RowOf(0), RowOf(1), ... and meets no fault; the driver looks at the
\* table (select) or ends the session at the sizes in Checkpoints.  The
\* sessions after it are short and, on a table of at most MaxFaultRows
\* rows, may meet a fault.
MaxLateInserts == 1
MaxLoadSessions == 3
MaxFaultRows == 30

Checkpoints == {0, 1, ROWS_PER_PAGE, ROWS_PER_PAGE + 1,
                ROWS_PER_PAGE * ROWS_PER_PAGE, ROWS_PER_PAGE * ROWS_PER_PAGE + 1,
                TABLE_MAX_ROWS}

Letters(n, len) == [j \in 1 .. len |-> 97 + ((n + j) % 26)]

RowOf(n) == [id |-> n + 1, username |-> Letters(n, 1 + (n % 3)),
             email |-> Letters(n + 7, 1 + (n % 2))]

LoadFaults ==
    IF Session = 1 \/ numRows > MaxFaultRows THEN {NoFault} ELSE FaultChoices

LoadOpen ==
    /\ Len(exits) < MaxLoadSessions
    /\ DoOpen

LoadInsert ==
    \E fault \in LoadFaults :
        /\ Session = 1 \/ numRows - openRows < MaxLateInserts
        /\ DoInsert(RowOf(Len(log)), fault)

LoadSelect ==
    \E fault \in LoadFaults :
        /\ Session > 1 \/ numRows \in Checkpoints
        /\ DoSelect(fault)

LoadClose ==
    \E fault \in LoadFaults, partial \in PartialWrites :
        /\ Session > 1 \/ numRows \in Checkpoints
        /\ DoClose(fault, partial)

LoadNext == LoadOpen \/ LoadInsert \/ LoadSelect \/ LoadClose

SpecLoad == Init /\ [][LoadNext]_vars

\* ------------------------------------------------------------ codec check

\* serializeRow and deserializeRow on their own: a row drawn from
\* CodecRows is serialized into a destination that holds CodecPrior (all
\* zero, or a non-zero byte at every offset), and the slot is then
\* deserialized.  The strings cover the empty string, the field width, one
\* byte more than the field width, and a zero byte inside the string.
CodecIds == {0, 1, 256, 16909060, 2147483647}

CodecUsernames == {<<>>, <<117>>, <<117, 0, 118>>, FullUsername,
                   FullUsername \o <<33>>}

CodecEmails == {<<>>, <<101, 64>>, <<0, 101>>, FullEmail, FullEmail \o <<34>>}

CodecRows == [id : CodecIds, username : CodecUsernames, email : CodecEmails]

DirtyBuf == [o \in 0 .. (ROW_SIZE + 3) |-> 255]

CodecPrior == {ZeroBuf, DirtyBuf}

CodecInit ==
    /\ DbInit
    /\ codecRow \in CodecRows
    /\ codecBuf \in CodecPrior
    /\ codecOut = NoRow
    /\ codecPhase = "start"
    /\ slotRow = 0
    /\ slotOut = NoSlot

Serialize ==
    /\ codecPhase = "start"
    /\ codecBuf' = serializeRow(codecRow, codecBuf, 0)
    /\ codecPhase' = "encoded"
    /\ UNCHANGED <<dbVars, slotVars, codecRow, codecOut>>

Deserialize ==
    /\ codecPhase = "encoded"
    /\ codecOut' = deserializeRow(codecBuf, 0)
    /\ codecPhase' = "decoded"
    /\ UNCHANGED <<dbVars, slotVars, codecRow, codecBuf>>

CodecNext == Serialize \/ Deserialize

SpecCodec == CodecInit /\ [][CodecNext]_vars

\* rowSlot on its own: a row number drawn from SlotRows (every row of the
\* table, and the rows of the two pages after the last one) is resolved
\* on a freshly opened table over the empty file.
SlotRows == 0 .. (TABLE_MAX_ROWS + 2 * ROWS_PER_PAGE - 1)

SlotOf(rowNum) ==
    LET slot == rowSlot(NoPages, 0, EmptyFile, NoFault, rowNum)
    IN  [err |-> slot.err, pageNum |-> slot.pageNum,
         byteOffset |-> slot.byteOffset]

SlotInit ==
    /\ DbInit
    /\ codecRow = NoRow
    /\ codecBuf = ZeroBuf
    /\ codecOut = NoRow
    /\ codecPhase = "start"
    /\ slotRow \in SlotRows
    /\ slotOut = NoSlot

Resolve ==
    /\ slotOut = NoSlot
    /\ slotOut' = SlotOf(slotRow)
    /\ UNCHANGED <<dbVars, codecVars, slotRow>>

SlotNext == Resolve

SpecSlot == SlotInit /\ [][SlotNext]_vars

\* ------------------------------------------------------------ claims

\* A select that ran to its end and reported no unreadable row.
CleanSelect == lastOp = "select" /\ errs = <<>>

\* The rows stored so far by the inserts of this session.
SessionRows == SubSeq(log, Len(log) - (numRows - openRows) + 1, Len(log))

\* C1 (SpecLoad): a session stores N rows in the empty file and closes;
\* the next session opens the file and selects, before any insert: the
\* select prints exactly the N rows, in insertion order, with the values
\* inserted.
C1_PersistAnyN ==
    (Session = 2 /\ exitCode = 0 /\ CleanSelect /\ numRows = openRows)
    => out = log

\* C2 (SpecLoad): in the session on the empty file, an insert below
\* TABLE_MAX_ROWS rows succeeds and adds one row; an insert at
\* TABLE_MAX_ROWS rows returns EXECUTE_TABLE_FULL and changes neither
\* numRows nor any page nor the file; numRows is the number of rows stored
\* and never exceeds TABLE_MAX_ROWS.
C2_Capacity ==
    /\ [](Session = 1 => numRows = Len(log) /\ numRows <= TABLE_MAX_ROWS)
    /\ [][(Session = 1 /\ lastOp' = "insert") =>
            IF numRows < TABLE_MAX_ROWS
            THEN /\ result' = EXECUTE_SUCCESS
                 /\ printed' = "ok"
                 /\ numRows' = numRows + 1
            ELSE /\ result' = EXECUTE_TABLE_FULL
                 /\ numRows = TABLE_MAX_ROWS
                 /\ numRows' = numRows
                 /\ pages' = pages
                 /\ file' = file]_vars

\* C2 witness: the insert after the TABLE_MAX_ROWS-th was refused.
C2_Witness ==
    /\ Session = 1
    /\ lastOp = "insert"
    /\ result = EXECUTE_TABLE_FULL
    /\ numRows = TABLE_MAX_ROWS
    /\ Len(log) = TABLE_MAX_ROWS

\* Whether no byte of string s is zero.
NoZero(str) == \A j \in 1 .. Len(str) : str[j] # 0

\* C4 as claimed (SpecCodec): a row whose strings fit their fields is
\* returned unchanged by deserializeRow after serializeRow, whatever bytes
\* the strings hold.
C4_RoundTripAnyBytes ==
    (codecPhase = "decoded" /\ Len(codecRow.username) <= USERNAME_SIZE
        /\ Len(codecRow.email) <= EMAIL_SIZE)
    => codecOut = codecRow

\* C4 amended (SpecCodec): a row whose strings fit their fields and hold
\* no zero byte is returned unchanged by deserializeRow after serializeRow.
C4_RoundTrip ==
    (codecPhase = "decoded" /\ Len(codecRow.username) <= USERNAME_SIZE
        /\ Len(codecRow.email) <= EMAIL_SIZE
        /\ NoZero(codecRow.username) /\ NoZero(codecRow.email))
    => codecOut = codecRow

\* C4 witness: a row with both strings at the field width went through
\* a destination that held non-zero bytes and came back unchanged.
C4_Witness ==
    /\ codecPhase = "decoded"
    /\ Len(codecRow.username) = USERNAME_SIZE
    /\ Len(codecRow.email) = EMAIL_SIZE
    /\ codecRow.id = 2147483647
    /\ codecOut = codecRow
    /\ ByteAt(codecBuf, ROW_SIZE) = 255

\* C3 (SpecLoad): every select that meets no I/O error runs to its end
\* and prints numRows rows, the rows after those present at open being
\* the rows inserted in this session, in insertion order, with the values
\* inserted; a second select right after it prints the same sequence.
C3_SelectInOrder ==
    /\ []((lastOp \in {"select", "panic"} /\ errs = <<>>) =>
            /\ lastOp = "select"
            /\ Len(out) = numRows
            /\ SubSeq(out, openRows + 1, numRows) = SessionRows)
    /\ [][(CleanSelect /\ lastOp' \in {"select", "panic"} /\ errs' = <<>>) =>
            (lastOp' = "select" /\ out' = out)]_vars

\* C5 (SpecLoad): no operation indexes the slot array out of bounds (no
\* process ends in a panic), and an insert whose page access failed
\* changes no slot.
C5_NoPanic ==
    /\ [](lastOp # "panic" /\ exitCode # PANIC_EXIT)
    /\ [][(lastOp' = "insert" /\ printed' # "ok") => pages' = pages]_vars

\* C6 (SpecLoad): numRows is within 0 .. TABLE_MAX_ROWS in every state.
C6_RowBound == numRows \in 0 .. TABLE_MAX_ROWS

\* C7 (SpecLoad): while the session has stored no row, every resident page
\* holds the bytes of the file at its place, as many as the file holds
\* there, and zero in the rest of the page.
C7_Hydration ==
    (status = "open" /\ numRows = openRows) =>
        \A p \in DOMAIN pages :
            LET blk == FileBlock(file, p)
            IN  \A i \in (DOMAIN pages[p]) \cup (DOMAIN blk) :
                    ByteAt(pages[p], i) =
                        IF p * PAGE_SIZE + i < fileLength
                        THEN FileByte(file, p * PAGE_SIZE + i)
                        ELSE 0

\* C7 witness: a later session loaded the second page of a file whose
\* last page is partial, and that page holds data.
C7_Witness ==
    /\ status = "open"
    /\ Session > 1
    /\ numRows = openRows
    /\ fileLength % PAGE_SIZE # 0
    /\ 1 \in DOMAIN pages
    /\ pages[1] # ZeroBuf
    /\ fileLength < 2 * PAGE_SIZE

FullWidth(row) ==
    /\ Len(row.username) = USERNAME_SIZE
    /\ Len(row.email) = EMAIL_SIZE
    /\ NoZero(row.username)
    /\ NoZero(row.email)

\* C8 (Spec): a select that meets no I/O error prints every row of this
\* session whose username has 32 and whose email has 255 non-zero bytes
\* with both strings as inserted.
C8_FullWidthVerbatim ==
    CleanSelect =>
        \A k \in 1 .. Len(SessionRows) :
            FullWidth(SessionRows[k]) =>
                /\ openRows + k <= Len(out)
                /\ out[openRows + k].username = SessionRows[k].username
                /\ out[openRows + k].email = SessionRows[k].email

\* C8 witness: a full-width row and the row stored after it were printed
\* as inserted.
C8_Witness ==
    /\ CleanSelect
    /\ Len(SessionRows) = 2
    /\ FullWidth(SessionRows[1])
    /\ ~FullWidth(SessionRows[2])
    /\ out[openRows + 1] = SessionRows[1]
    /\ out[openRows + 2] = SessionRows[2]

\* A step of dbClose.
ClosingStep == status = "open" /\ lastOp' = "close"

\* The pages dbClose flushes: the resident ones among the full pages and
\* the last, partial page; and the number of bytes it writes for one.
FlushSet ==
    {p \in DOMAIN pages :
        \/ p < numRows \div ROWS_PER_PAGE
        \/ p = numRows \div ROWS_PER_PAGE /\ numRows % ROWS_PER_PAGE > 0}

FlushSize(p) ==
    IF p < numRows \div ROWS_PER_PAGE THEN PAGE_SIZE
    ELSE (numRows % ROWS_PER_PAGE) * ROW_SIZE

SetMin(S) == CHOOSE x \in S : \A y \in S : x <= y

SetMax(S) == CHOOSE x \in S : \A y \in S : x >= y

\* C9 (SpecLoad): the process exits with 0 exactly when dbClose returned
\* no error and with 1 otherwise; when a seek or a write failed, at page q,
\* the pages before q are flushed and released, page q and every page
\* after it stay resident, no byte of the file at or after the end of
\* page q is changed, a failed seek changes no byte of page q either, and
\* the file does not grow past what page q's flush writes; when
\* file.Close failed every page had been flushed.
C9_CloseStopsAtError ==
    [][ClosingStep =>
        /\ (closeErr' = "ok") <=> (exitCode' = 0)
        /\ closeErr' # "ok" => exitCode' = 1
        /\ closeErr' \in {"seek", "write"} =>
            /\ FlushSet \cap DOMAIN pages' # {}
            /\ LET q == SetMin(FlushSet \cap DOMAIN pages')
               IN  /\ \A p \in FlushSet : (p < q) <=> (p \notin DOMAIN pages')
                   /\ \A p \in (DOMAIN file.blocks) \cup (DOMAIN file'.blocks) :
                        p > q => FileBlock(file', p) = FileBlock(file, p)
                   /\ closeErr' = "seek" =>
                        FileBlock(file', q) = FileBlock(file, q)
                   /\ file'.len <= Max(file.len, q * PAGE_SIZE + FlushSize(q))
        /\ closeErr' = "close" => FlushSet \cap DOMAIN pages' = {}]_vars

\* C9 witness: a flush failed while a later page, resident and different
\* from the file, was waiting; it was not written.
C9_Witness ==
    /\ lastOp = "close"
    /\ closeErr \in {"seek", "write"}
    /\ exitCode = 1
    /\ \E q \in DOMAIN pages : \E p \in DOMAIN pages :
            /\ p > q
            /\ p <= (numRows - 1) \div ROWS_PER_PAGE
            /\ pages[p] # ZeroBuf
            /\ FileBlock(file, p) = ZeroBuf

\* C10 (SpecLoad): a dbClose that returns no error writes, for each
\* resident full page, its PAGE_SIZE bytes at the page's place in the
\* file, for the resident partial last page its first
\* (numRows % ROWS_PER_PAGE) * ROW_SIZE bytes, and nothing else: every
\* other byte of the file is unchanged and the file ends where it ended
\* or where the last write ended; a dbClose that fails changes no byte
\* outside those ranges either; so a session that started on the empty
\* file leaves a file of
\* (N div ROWS_PER_PAGE) * PAGE_SIZE + (N mod ROWS_PER_PAGE) * ROW_SIZE
\* bytes for its N rows.
C10_FlushExact ==
    /\ [][(ClosingStep /\ closeErr' = "ok") =>
            /\ \A p \in (DOMAIN pages) \cup (DOMAIN file.blocks)
                            \cup (DOMAIN file'.blocks) :
                LET w   == IF p \in FlushSet THEN FlushSize(p) ELSE 0
                    pg  == IF p \in DOMAIN pages THEN pages[p] ELSE ZeroBuf
                    old == FileBlock(file, p)
                    new == FileBlock(file', p)
                IN  \A i \in (DOMAIN pg) \cup (DOMAIN old) \cup (DOMAIN new) :
                        ByteAt(new, i) =
                            IF i < w THEN ByteAt(pg, i) ELSE ByteAt(old, i)
            /\ file'.len = SetMax({file.len} \cup
                    {p * PAGE_SIZE + FlushSize(p) : p \in FlushSet})]_vars
    /\ [][ClosingStep =>
            /\ \A p \in (DOMAIN file.blocks) \cup (DOMAIN file'.blocks) :
                LET w   == IF p \in FlushSet THEN FlushSize(p) ELSE 0
                    pg  == IF p \in DOMAIN pages THEN pages[p] ELSE ZeroBuf
                    old == FileBlock(file, p)
                    new == FileBlock(file', p)
                IN  \A i \in (DOMAIN pg) \cup (DOMAIN old) \cup (DOMAIN new) :
                        \/ ByteAt(new, i) = ByteAt(old, i)
                        \/ i < w /\ ByteAt(new, i) = ByteAt(pg, i)
            /\ file'.len <= SetMax({file.len} \cup
                    {p * PAGE_SIZE + FlushSize(p) : p \in FlushSet})]_vars
    /\ []((lastOp = "close" /\ closeErr = "ok" /\ fileLength = 0) =>
            file.len = (numRows \div ROWS_PER_PAGE) * PAGE_SIZE
                       + (numRows % ROWS_PER_PAGE) * ROW_SIZE)

\* C10 witness: a session that loaded only the last, partial page of a
\* file of several pages closed without error.
C10_Witness ==
    /\ lastOp = "close"
    /\ closeErr = "ok"
    /\ Session > 2
    /\ numRows % ROWS_PER_PAGE > 1
    /\ numRows > openRows
    /\ numRows > ROWS_PER_PAGE
    /\ file.len % PAGE_SIZE = (numRows % ROWS_PER_PAGE) * ROW_SIZE

\* The bytes of buffer b outside the ROW_SIZE bytes that start at off.
OutsideSlot(b, off) ==
    [i \in {j \in DOMAIN b : j < off \/ j >= off + ROW_SIZE} |-> b[i]]

\* The ROW_SIZE bytes of buffer b that start at off, by their offset in
\* the slot.
SlotBytes(b, off) == [i \in 0 .. (ROW_SIZE - 1) |-> ByteAt(b, off + i)]

\* The buffer a first fetch of page p gives: what the file holds there.
FileSide(p) == FileRead(file, p)

\* C11 (SpecLoad): an insert that stores a row adds exactly one to numRows
\* and changes, in the page store, only the ROW_SIZE bytes of the slot of
\* row numRows (its value before the insert), which afterwards hold the
\* serialized row: every other resident page keeps its buffer, the page of
\* the slot keeps every byte outside the slot (when the insert is the one
\* that loads the page, these are the bytes of the file), no page but that
\* one becomes resident, none is released, and the file is not written;
\* and numRows never decreases while the session runs.
C11_InsertFrame ==
    /\ [][(lastOp' = "insert" /\ numRows' # numRows) =>
            LET p   == numRows \div ROWS_PER_PAGE
                off == (numRows % ROWS_PER_PAGE) * ROW_SIZE
                was == IF p \in DOMAIN pages THEN pages[p] ELSE FileSide(p)
            IN  /\ numRows' = numRows + 1
                /\ DOMAIN pages' = (DOMAIN pages) \cup {p}
                /\ \A q \in DOMAIN pages : q # p => pages'[q] = pages[q]
                /\ OutsideSlot(pages'[p], off) = OutsideSlot(was, off)
                /\ SlotBytes(pages'[p], off) =
                     [i \in 0 .. (ROW_SIZE - 1) |->
                        SerializedByte(log'[Len(log')], i)]
                /\ \A r \in 0 .. (numRows - 1) :
                     r \div ROWS_PER_PAGE = p =>
                        SlotBytes(pages'[p], (r % ROWS_PER_PAGE) * ROW_SIZE)
                        = SlotBytes(was, (r % ROWS_PER_PAGE) * ROW_SIZE)
                /\ file' = file]_vars
    /\ [][(status = "open" /\ status' = "open") => numRows' >= numRows]_vars

\* C11 witness: in a later session an insert stored a row in a page that
\* was loaded from the file and holds earlier rows.
C11_Witness ==
    /\ lastOp = "insert"
    /\ Session > 1
    /\ numRows = openRows + 1
    /\ numRows % ROWS_PER_PAGE > 1
    /\ fileLength > 0
    /\ LET p == (numRows - 1) \div ROWS_PER_PAGE
       IN  /\ p \in DOMAIN pages
           /\ FileSide(p) # ZeroBuf
           /\ OutsideSlot(pages[p], ((numRows - 1) % ROWS_PER_PAGE) * ROW_SIZE)
                = FileSide(p)

\* The pages that hold the rows 0 .. n-1.
RowPages(n) == {r \div ROWS_PER_PAGE : r \in 0 .. (n - 1)}

\* C12 (SpecLoad): a select changes neither numRows nor the file nor the
\* buffer of any page that was resident, and releases no page; the pages
\* it makes resident are among those that hold the rows 0 .. numRows-1
\* and hold what the file holds at their place; a select that reported no
\* unreadable row made all of those pages resident.
C12_SelectFrame ==
    [][(status = "open" /\ lastOp' \in {"select", "panic"}) =>
        /\ numRows' = numRows
        /\ file' = file
        /\ \A q \in DOMAIN pages : q \in DOMAIN pages' /\ pages'[q] = pages[q]
        /\ (DOMAIN pages') \ (DOMAIN pages) \subseteq RowPages(numRows)
        /\ \A q \in (DOMAIN pages') \ (DOMAIN pages) : pages'[q] = FileSide(q)
        /\ (lastOp' = "select" /\ errs' = <<>>) =>
                DOMAIN pages' = (DOMAIN pages) \cup RowPages(numRows)]_vars

\* C12 witness: a select ran in a session that had stored a row: the page
\* of that row differs from the file and another page, with data, is as
\* the file holds it; no page beyond the rows is resident.
C12_Witness ==
    /\ CleanSelect
    /\ numRows > openRows
    /\ DOMAIN pages = RowPages(numRows)
    /\ \E p \in DOMAIN pages : \E q \in DOMAIN pages :
            /\ pages[p] = FileSide(p)
            /\ pages[p] # ZeroBuf
            /\ pages[q] # FileSide(q)

\* C13 (SpecLoad): while the process runs (inserts and selects, also the
\* select that ends it by a panic) no resident page is released, and a
\* resident buffer changes only in the slot an insert writes; so every
\* select that reported no unreadable row prints the rows this session
\* stored, after the rows present at open, with the values inserted; and
\* after a dbClose that returned no error every slot is empty.
C13_ResidentStays ==
    /\ [][(status = "open" /\ lastOp' \in {"insert", "select", "panic"}) =>
            \A q \in DOMAIN pages :
                /\ q \in DOMAIN pages'
                /\ \/ pages'[q] = pages[q]
                   \/ /\ lastOp' = "insert"
                      /\ numRows' = numRows + 1
                      /\ q = numRows \div ROWS_PER_PAGE
                      /\ OutsideSlot(pages'[q], (numRows % ROWS_PER_PAGE) * ROW_SIZE)
                         = OutsideSlot(pages[q], (numRows % ROWS_PER_PAGE) * ROW_SIZE)]_vars
    /\ [](CleanSelect =>
            /\ Len(out) = numRows
            /\ SubSeq(out, openRows + 1, numRows) = SessionRows)
    /\ []((lastOp = "close" /\ closeErr = "ok") => pages = NoPages)

\* C13 witness: the first session stored rows in fifteen pages and a
\* select printed all of them as inserted, from the resident buffers (the
\* file is still empty).
C13_Witness ==
    /\ CleanSelect
    /\ Session = 1
    /\ file = EmptyFile
    /\ Cardinality(DOMAIN pages) = ROWS_PER_PAGE + 1
    /\ numRows = ROWS_PER_PAGE * ROWS_PER_PAGE + 1
    /\ out = log

\* C14 (SpecSlot): rowSlot resolves every row number i below
\* TABLE_MAX_ROWS, without error, to page i div ROWS_PER_PAGE, one of the
\* pages 0 .. TABLE_MAX_PAGES-1, at byte offset (i mod ROWS_PER_PAGE) *
\* ROW_SIZE; the ROW_SIZE bytes from there end inside the page; and the
\* span of no other row number below TABLE_MAX_ROWS overlaps them.
C14_SlotArithmetic ==
    (slotOut # NoSlot /\ slotRow < TABLE_MAX_ROWS) =>
        /\ slotOut.err = "ok"
        /\ slotOut.pageNum = slotRow \div ROWS_PER_PAGE
        /\ slotOut.pageNum \in 0 .. (TABLE_MAX_PAGES - 1)
        /\ slotOut.byteOffset = (slotRow % ROWS_PER_PAGE) * ROW_SIZE
        /\ slotOut.byteOffset >= 0
        /\ slotOut.byteOffset + ROW_SIZE <= PAGE_SIZE
        /\ \A j \in 0 .. (TABLE_MAX_ROWS - 1) :
            j # slotRow =>
                LET other == SlotOf(j)
                IN  \/ other.pageNum # slotOut.pageNum
                    \/ other.byteOffset + ROW_SIZE <= slotOut.byteOffset
                    \/ slotOut.byteOffset + ROW_SIZE <= other.byteOffset

\* C14 witness: the last row of the table was resolved to the last slot of
\* the last page.
C14_Witness ==
    /\ slotRow = TABLE_MAX_ROWS - 1
    /\ slotOut.err = "ok"
    /\ slotOut.pageNum = TABLE_MAX_PAGES - 1
    /\ slotOut.byteOffset = (ROWS_PER_PAGE - 1) * ROW_SIZE

\* C15 (SpecCodec): whatever the destination held and however long the
\* strings are, serializeRow leaves in bytes 0..3 the id, least
\* significant byte first, in the USERNAME_SIZE bytes after them the first
\* min(len, USERNAME_SIZE) bytes of the username followed by zeros, in
\* the EMAIL_SIZE bytes after those the first min(len, EMAIL_SIZE) bytes
\* of the email followed by zeros, and changes no byte from offset
\* ROW_SIZE on.
C15_SerializeBytes ==
    [][(codecPhase = "start" /\ codecPhase' = "encoded") =>
        /\ \A k \in 0 .. (ID_SIZE - 1) :
            ByteAt(codecBuf', ID_OFFSET + k) = (codecRow.id \div (256 ^ k)) % 256
        /\ \A j \in 0 .. (USERNAME_SIZE - 1) :
            ByteAt(codecBuf', USERNAME_OFFSET + j) =
                IF j < Len(codecRow.username) THEN codecRow.username[j + 1] ELSE 0
        /\ \A j \in 0 .. (EMAIL_SIZE - 1) :
            ByteAt(codecBuf', EMAIL_OFFSET + j) =
                IF j < Len(codecRow.email) THEN codecRow.email[j + 1] ELSE 0
        /\ \A o \in (DOMAIN codecBuf) \cup (DOMAIN codecBuf') :
            /\ o >= 0
            /\ o >= ROW_SIZE => ByteAt(codecBuf', o) = ByteAt(codecBuf, o)]_vars

\* C15 witness: a row with a short username and an email one byte longer
\* than its field was serialized into a destination full of non-zero
\* bytes: the username is followed by zeros, the email field ends with
\* the last byte that fits, and the byte after the row is as it was.
C15_Witness ==
    /\ codecPhase = "encoded"
    /\ Len(codecRow.username) = 1
    /\ Len(codecRow.email) = EMAIL_SIZE + 1
    /\ ByteAt(codecBuf, USERNAME_OFFSET) = codecRow.username[1]
    /\ ByteAt(codecBuf, USERNAME_OFFSET + 1) = 0
    /\ ByteAt(codecBuf, ROW_SIZE - 1) = codecRow.email[EMAIL_SIZE]
    /\ ByteAt(codecBuf, ROW_SIZE) = 255

\* C16 (SpecLoad): two sessions stored rows and ended with exit code 0;
\* the third session selects before it inserts, and no row is reported
\* unreadable: the select prints exactly the rows of the first session
\* followed by the rows of the second, with the values inserted.
C16_TwoSessions ==
    (Session = 3 /\ exits = <<0, 0>> /\ CleanSelect /\ numRows = openRows)
        => out = log

\* C16, small tables: the same, for sessions that leave fewer than
\* ROWS_PER_PAGE pages in the file.
C16_SmallTables ==
    (/\ Session = 3
     /\ exits = <<0, 0>>
     /\ CleanSelect
     /\ numRows = openRows
     /\ Len(log) < ROWS_PER_PAGE * ROWS_PER_PAGE)
        => out = log

\* C16, small tables, witness: the second session appended a row to a
\* page that the first session had left partly filled, and the third
\* session printed both sessions' rows.
C16_SmallWitness ==
    /\ Session = 3
    /\ exits = <<0, 0>>
    /\ CleanSelect
    /\ numRows = openRows
    /\ Len(log) = ROWS_PER_PAGE + 2
    /\ out = log

\* C17 (SpecLoad): a dbClose that returns no error at the end of a
\* session that stored no row leaves the file as it was, length and
\* bytes; so the next dbOpen finds the number of rows this session found.
C17_IdleSessionKeepsFile ==
    [][(ClosingStep /\ closeErr' = "ok" /\ numRows = openRows) =>
            file' = file]_vars

\* C17, small tables: the same, for a file of fewer than ROWS_PER_PAGE
\* pages.
C17_SmallTables ==
    [][(/\ ClosingStep
        /\ closeErr' = "ok"
        /\ numRows = openRows
        /\ fileLength < ROWS_PER_PAGE * PAGE_SIZE) =>
            file' = file]_vars

\* C17, small tables, witness: a session opened a file with rows in two
\* pages, selected, and closed without error.
C17_SmallWitness ==
    /\ lastOp = "close"
    /\ closeErr = "ok"
    /\ Session > 2
    /\ numRows = openRows
    /\ numRows > ROWS_PER_PAGE
    /\ Len(out) = numRows
    /\ file.len = fileLength

\* C18 (Spec): an insert that returns EXECUTE_SUCCESS (the REPL then
\* prints "Executed.") has stored its row and added one to numRows, and
\* no error was printed for it; an insert for which rowSlot returned an
\* error does not return EXECUTE_SUCCESS and leaves numRows as it was.
C18_SuccessMeansStored ==
    [][(status = "open" /\ lastOp' = "insert") =>
        /\ result' = EXECUTE_SUCCESS =>
                /\ printed' = "ok"
                /\ numRows' = numRows + 1
                /\ log' # log
        /\ printed' # "ok" =>
                /\ result' # EXECUTE_SUCCESS
                /\ numRows' = numRows]_vars

\* C18, second half alone: an insert for which rowSlot returned an error
\* stores nothing: numRows, the stored rows and the page store are as
\* they were.
C18_FailedInsertStoresNothing ==
    [][(status = "open" /\ lastOp' = "insert" /\ printed' # "ok") =>
        /\ numRows' = numRows
        /\ log' = log
        /\ pages' = pages]_vars

\* C18, second half, witness: an insert met a seek or read error.
C18_FailedInsertWitness ==
    /\ lastOp = "insert"
    /\ printed \in {"seek", "read"}
    /\ result = EXECUTE_SUCCESS

=============================================================================
